---- MODULE Spec2Model ----
(***************************************************************************)
(* Pedigree API (back/app): the login flow (google_login, upsert_user),    *)
(* the snapshot store (get/upsert/delete/apply_snapshot_patch) and the     *)
(* four /v1/pedigree handlers, over the two tables of models.py.           *)
(*                                                                         *)
(* A request is a sequence of steps of one slot of `req`:                  *)
(*   Begin    the handler up to its last query: credential checks, the     *)
(*            SELECTs of the session's transaction, the computation of     *)
(*            the pending write (MySQL/InnoDB REPEATABLE READ: all plain   *)
(*            SELECTs of the transaction read the view of its first one);  *)
(*   Commit   db.commit(): the pending INSERT/UPDATE/DELETE is flushed and *)
(*            committed against the rows as they are then;                 *)
(*   Refresh  db.refresh(obj): the row is read again, the response built;  *)
(*   Return   the response leaves, the slot is free again.                 *)
(* Steps of different slots interleave freely.                             *)
(***************************************************************************)
EXTENDS Naturals, Sequences, FiniteSets, TLC

VARIABLES
    users,              \* table "users": rows [id, google_sub, email, name, photo_url]
    snapshots,          \* table "pedigree_snapshots": rows [id, user_id, people_json]
    snapshot_seq,       \* AUTO_INCREMENT of pedigree_snapshots.id: last id issued
    google_client_id,   \* settings.google_client_id
    req                 \* the requests in flight, one per slot

vars == <<users, snapshots, snapshot_seq, google_client_id, req>>

(***************************************************************************)
(* Bounds                                                                  *)
(***************************************************************************)
MaxSnapshotId == 3      \* snapshot rows ever inserted
MaxDeletes == 2         \* length of a patch's delete list

\* The request slots: requests in flight at once.
Slots == {1, 2}

(***************************************************************************)
(* Values                                                                  *)
(***************************************************************************)
\* Python's None for a string-valued field.
None == "<None>"

\* `not x` for x: str | None.
Falsy(x) == x = None \/ x = ""

\* An optional character string (a header, a token): <<>> is None, <<s>> is s.
NoHeader == <<>>
Header(s) == <<s>>
NoToken == <<>>

\* identity = None
NoIdentity == [none |-> TRUE]

\* .first() found no row
NoRow == [none |-> TRUE]

Subjects == {"s1", "s2"}
Emails == {"e1", "e2"}
\* (name, photo_url / picture) pairs of the identities the runs use
Profiles == {<<None, None>>, <<"n1", "p1">>}

BearerPrefix == <<"B", "e", "a", "r", "e", "r", " ">>

\* Authorization headers of the runs: absent, empty, another scheme, the bare
\* prefix, a token, a token in blanks, the prefix in lower case.
Headers ==
    { NoHeader,
      Header(<<>>),
      Header(<<"B", "a", "s", "i", "c", " ", "t">>),
      Header(BearerPrefix),
      Header(BearerPrefix \o <<" ">>),
      Header(BearerPrefix \o <<"t">>),
      Header(BearerPrefix \o <<" ", "t", " ">>),
      Header(<<"b", "e", "a", "r", "e", "r", " ", "t">>) }

\* What the userinfo endpoint (and, for an id_token, the token verifier) may
\* answer: an HTTP error, any other failure, or a JSON object whose fields may
\* be missing or empty.
ProviderAnswers ==
    { [kind |-> "HTTPError"], [kind |-> "Exception"] } \cup
    { [kind |-> "ok", sub |-> s, email |-> e, name |-> p[1], picture |-> p[2]] :
        s \in Subjects \cup {None, ""}, e \in Emails \cup {None, ""}, p \in Profiles }

\* GoogleLoginRequest bodies (email: EmailStr | None, so never "").
LoginPayloads ==
    { [id_token |-> t, google_sub |-> s, email |-> e, name |-> p[1], photo_url |-> p[2]] :
        t \in {None, "", "idtok"}, s \in Subjects \cup {None, ""},
        e \in Emails \cup {None}, p \in Profiles }

(***************************************************************************)
(* main.py: bearer token                                                   *)
(***************************************************************************)
startswith(s, prefix) ==
    /\ Len(s) >= Len(prefix)
    /\ SubSeq(s, 1, Len(prefix)) = prefix

RECURSIVE lstrip(_)
lstrip(s) == IF s # <<>> /\ Head(s) = " " THEN lstrip(Tail(s)) ELSE s

RECURSIVE rstrip(_)
rstrip(s) ==
    IF s # <<>> /\ s[Len(s)] = " " THEN rstrip(SubSeq(s, 1, Len(s) - 1)) ELSE s

strip(s) == rstrip(lstrip(s))

extract_bearer_token(authorization) ==
    IF authorization = NoHeader \/ authorization[1] = <<>> THEN NoToken
    ELSE IF ~startswith(authorization[1], BearerPrefix) THEN NoToken
    ELSE LET t == strip(SubSeq(authorization[1], Len(BearerPrefix) + 1,
                               Len(authorization[1])))
         IN  IF t = <<>> THEN NoToken ELSE <<t>>

(***************************************************************************)
(* crud.py: the verifiers.  A result is [raised, via, value]: the          *)
(* exception raised (None: none), the return statement taken, the value;   *)
(* get_identity_from_access_token's also holds its local `token`.          *)
(***************************************************************************)
verify_google_access_token(access_token, answer) ==
    CASE answer.kind = "ok" ->
            [raised |-> None, via |-> "access_token",
             value |-> [google_sub |-> answer.sub, email |-> answer.email,
                        name |-> answer.name, photo_url |-> answer.picture]]
      [] answer.kind = "HTTPError" ->
            [raised |-> "invalid_google_access_token", via |-> "access_token",
             value |-> NoIdentity]
      [] OTHER ->
            [raised |-> "google_access_token_verify_failed", via |-> "access_token",
             value |-> NoIdentity]

get_identity_from_access_token(authorization, answer) ==
    LET token == extract_bearer_token(authorization)
        v == verify_google_access_token(token[1], answer)
    IN  IF token = NoToken
        THEN [raised |-> None, via |-> "none", value |-> NoIdentity, token |-> token]
        ELSE [raised |-> v.raised, via |-> v.via, value |-> v.value, token |-> token]

verify_google_identity(payload, answer) ==
    IF ~Falsy(payload.id_token) /\ ~Falsy(google_client_id)
    THEN IF answer.kind = "ok"
         THEN [raised |-> None, via |-> "id_token",
               value |-> [google_sub |-> answer.sub, email |-> answer.email,
                          name |-> answer.name, photo_url |-> answer.picture]]
         ELSE [raised |-> "Exception", via |-> "id_token", value |-> NoIdentity]
    ELSE \* Local/dev fallback
         [raised |-> None, via |-> "dev",
          value |-> [google_sub |-> payload.google_sub, email |-> payload.email,
                     name |-> payload.name, photo_url |-> payload.photo_url]]

(***************************************************************************)
(* Requests                                                                *)
(***************************************************************************)
NoDoc == [none |-> TRUE]

\* Person ids and person records (opaque JSON objects) of the documents.
PersonIds == {"p1", "p2"}
Records == {"Alice", "Bob"}

\* dict[str, Any]: the people_by_id documents.
Docs == UNION {[S -> Records] : S \in SUBSET PersonIds}
EmptyDoc == <<>>

\* list[str]: the delete lists, repeated ids included.
DeleteLists == UNION {[1..n -> PersonIds] : n \in 0..MaxDeletes}

\* A JSON value with its Python type: a dict, a list, or something else.
JsonDict(d) == [t |-> "dict", v |-> d]
JsonList(l) == [t |-> "list", v |-> l]
JsonString(chars) == [t |-> "str", v |-> chars]
JsonNull == [t |-> "NoneType", v |-> <<>>]
JsonNumber == [t |-> "int", v |-> <<>>]

Idle ==
    [pc |-> "idle", op |-> "none", path |-> None, token |-> NoToken,
     id_token |-> None, via |-> "none", identity |-> NoIdentity, user |-> NoRow,
     snapshot |-> NoRow, payload |-> NoDoc, upserts |-> NoDoc, deletes |-> NoDoc,
     people |-> NoDoc, status |-> 0, body |-> NoDoc]

\* raise HTTPException(status_code, detail); an unhandled exception is a 500.
HTTPException(r, status_code, detail) ==
    [r EXCEPT !.pc = "done", !.status = status_code, !.body = [detail |-> detail]]

\* db.query(...).filter(...).first()
first(rows) ==
    IF rows = {} THEN NoRow
    ELSE CHOOSE u \in rows : \A v \in rows : u.id <= v.id

get_user_by_google_sub(google_sub) ==
    first({u \in users : u.google_sub = google_sub})

UserResponse(user) ==
    [id |-> user.id, google_sub |-> user.google_sub, email |-> user.email,
     name |-> user.name, photo_url |-> user.photo_url]

(***************************************************************************)
(* POST /v1/auth/google                                                    *)
(***************************************************************************)
\* Mutant: a failed access token falls through to the id_token / dev path.
google_login_try_next(authorization, payload, answer) ==
    LET a == get_identity_from_access_token(authorization, answer)
        r0 == [Idle EXCEPT !.op = "login", !.token = a.token,
                           !.id_token = payload.id_token]
        v == IF a.value = NoIdentity
             THEN verify_google_identity(payload, answer) ELSE a
        r1 == [r0 EXCEPT !.via = v.via, !.identity = v.value]
    IN  IF v.raised # None THEN HTTPException(r1, 401, "invalid id token")
        ELSE IF Falsy(v.value.google_sub) \/ Falsy(v.value.email)
        THEN HTTPException(r1, 400, "google_sub/email is required")
        ELSE [r1 EXCEPT !.pc = "loaded",
                        !.user = get_user_by_google_sub(v.value.google_sub)]

\* Mutant: only the subject id is required of the identity.
google_login_subject_only(authorization, payload, answer) ==
    LET a == get_identity_from_access_token(authorization, answer)
        r0 == [Idle EXCEPT !.op = "login", !.token = a.token,
                           !.id_token = payload.id_token]
    IN  IF a.raised # None
        THEN HTTPException([r0 EXCEPT !.via = a.via], 401, "invalid access token")
        ELSE
        LET v == IF a.value = NoIdentity
                 THEN verify_google_identity(payload, answer) ELSE a
            r1 == [r0 EXCEPT !.via = v.via, !.identity = v.value]
        IN  IF v.raised # None THEN HTTPException(r1, 401, "invalid id token")
            ELSE IF Falsy(v.value.google_sub)
            THEN HTTPException(r1, 400, "google_sub/email is required")
            ELSE [r1 EXCEPT !.pc = "loaded",
                            !.user = get_user_by_google_sub(v.value.google_sub)]

\* google_login up to upsert_user's query.
google_login(authorization, payload, answer) ==
    LET a == get_identity_from_access_token(authorization, answer)
        r0 == [Idle EXCEPT !.op = "login", !.token = a.token,
                           !.id_token = payload.id_token]
    IN  IF a.raised # None
        THEN HTTPException([r0 EXCEPT !.via = a.via], 401, "invalid access token")
        ELSE
        LET v == IF a.value = NoIdentity
                 THEN verify_google_identity(payload, answer) ELSE a
            r1 == [r0 EXCEPT !.via = v.via, !.identity = v.value]
        IN  IF v.raised # None THEN HTTPException(r1, 401, "invalid id token")
            ELSE IF Falsy(v.value.google_sub) \/ Falsy(v.value.email)
            THEN HTTPException(r1, 400, "google_sub/email is required")
            ELSE [r1 EXCEPT !.pc = "loaded",
                            !.user = get_user_by_google_sub(v.value.google_sub)]

LoginBegin(s, authorization, payload, answer) ==
    /\ req[s].pc = "idle"
    /\ req' = [req EXCEPT ![s] = google_login(authorization, payload, answer)]
    /\ UNCHANGED <<users, snapshots, snapshot_seq, google_client_id>>

\* Mutant: no unique index on email.
UsersUniqueViolation_sub_only(row, id) ==
    \E u \in users : u.id # id /\ u.google_sub = row.google_sub

\* Mutant: no unique index on google_sub.
UsersUniqueViolation_email_only(row, id) ==
    \E u \in users : u.id # id /\ u.email = row.email

\* The unique indexes of users (google_sub, email) against the rows but `id`.
UsersUniqueViolation(row, id) ==
    \E u \in users :
        /\ u.id # id
        /\ (u.google_sub = row.google_sub \/ u.email = row.email)

\* Mutant: a name or photo_url the identity lacks keeps the stored one.
overwritten_coalesce(cur, loaded, identity) ==
    [cur EXCEPT
       !.email = IF identity.email # loaded.email THEN identity.email ELSE @,
       !.name = IF identity.name # loaded.name /\ identity.name # None
                THEN identity.name ELSE @,
       !.photo_url = IF identity.photo_url # loaded.photo_url
                        /\ identity.photo_url # None
                     THEN identity.photo_url ELSE @]

\* user.email = ...; user.name = ...; user.photo_url = ... on the row loaded,
\* flushed as an UPDATE of the attributes whose value changed, on the row as
\* it then is.
overwritten(cur, loaded, identity) ==
    [cur EXCEPT
       !.email = IF identity.email # loaded.email THEN identity.email ELSE @,
       !.name = IF identity.name # loaded.name THEN identity.name ELSE @,
       !.photo_url = IF identity.photo_url # loaded.photo_url
                     THEN identity.photo_url ELSE @]

\* upsert_user's db.commit().  An UPDATE sets the columns whose value differs
\* from the one loaded, and none is sent when nothing differs; an INSERT or
\* UPDATE that breaks a unique index raises IntegrityError.
LoginCommit(s) ==
    LET r == req[s]
        ident == r.identity
    IN
    /\ r.pc = "loaded"
    /\ r.op = "login"
    /\ IF r.user # NoRow
       THEN LET cur == CHOOSE u \in users : u.id = r.user.id
                new == overwritten(cur, r.user, ident)
            IN  IF UsersUniqueViolation(new, cur.id)
                THEN /\ req' = [req EXCEPT ![s] =
                                  HTTPException(r, 500, "Internal Server Error")]
                     /\ UNCHANGED users
                ELSE /\ users' = (users \ {cur}) \cup {new}
                     /\ req' = [req EXCEPT ![s].pc = "committed"]
       ELSE LET new == [id |-> Cardinality(users) + 1,
                        google_sub |-> ident.google_sub, email |-> ident.email,
                        name |-> ident.name, photo_url |-> ident.photo_url]
            IN  IF UsersUniqueViolation(new, new.id)
                THEN /\ req' = [req EXCEPT ![s] =
                                  HTTPException(r, 500, "Internal Server Error")]
                     /\ UNCHANGED users
                ELSE /\ users' = users \cup {new}
                     /\ req' = [req EXCEPT ![s].pc = "committed",
                                           ![s].user = new]
    /\ UNCHANGED <<snapshots, snapshot_seq, google_client_id>>

\* upsert_user's db.refresh(user) and the response.
LoginRefresh(s) ==
    LET r == req[s]
        user == first({u \in users : u.id = r.user.id})
    IN
    /\ r.pc = "committed"
    /\ r.op = "login"
    /\ req' = [req EXCEPT ![s] = [r EXCEPT !.pc = "done", !.status = 200,
                                            !.user = user,
                                            !.body = UserResponse(user)]]
    /\ UNCHANGED <<users, snapshots, snapshot_seq, google_client_id>>

\* The response is sent; the slot takes the next request.
Return(s) ==
    /\ req[s].pc = "done"
    /\ req' = [req EXCEPT ![s] = Idle]
    /\ UNCHANGED <<users, snapshots, snapshot_seq, google_client_id>>

(***************************************************************************)
(* The login service                                                       *)
(***************************************************************************)
\* The service as started: no row yet, the audience configured or not.
InitAuth ==
    /\ users = {}
    /\ snapshots = {}
    /\ snapshot_seq = 0
    /\ google_client_id \in {None, "cid"}
    /\ req = [s \in Slots |-> Idle]

\* The steps of the login requests of slot s.
Login(s, headers, payloads, answers) ==
    \/ \E h \in headers, p \in payloads, a \in answers : LoginBegin(s, h, p, a)
    \/ LoginCommit(s)
    \/ LoginRefresh(s)
    \/ Return(s)

\* Credentials: one login at a time, every header, body and provider answer.
NextAuth == Login(1, Headers, LoginPayloads, ProviderAnswers)

SpecAuth == InitAuth /\ [][NextAuth]_vars

\* Accounts: logins in every slot at once, each with a bearer token the
\* provider answers with a complete identity.
EmptyPayload ==
    [id_token |-> None, google_sub |-> None, email |-> None, name |-> None,
     photo_url |-> None]

VerifiedAnswers ==
    { a \in ProviderAnswers : a.kind = "ok" /\ ~Falsy(a.sub) /\ ~Falsy(a.email) }

NextAccounts ==
    \E s \in Slots :
        Login(s, {Header(BearerPrefix \o <<"t">>)}, {EmptyPayload}, VerifiedAnswers)

SpecAccounts == InitAuth /\ [][NextAccounts]_vars

(***************************************************************************)
(* crud.py: the snapshot store                                             *)
(***************************************************************************)
\* Mutant: the filter on user_id left out of the query.
get_snapshot_any(user_id) ==
    first(snapshots)

get_snapshot(user_id) ==
    first({x \in snapshots : x.user_id = user_id})

\* current.pop(delete_id, None)
pop(current, delete_id) ==
    [k \in DOMAIN current \ {delete_id} |-> current[k]]

\* for delete_id in deletes: current.pop(delete_id, None)
RECURSIVE pop_each(_, _)
pop_each(current, deletes) ==
    IF deletes = <<>> THEN current
    ELSE pop_each(pop(current, Head(deletes)), Tail(deletes))

\* Mutant: the loop over the upserts stops after its first key.
set_each_first_only(current, upserts) ==
    IF DOMAIN upserts = {} THEN current
    ELSE LET key == CHOOSE k \in DOMAIN upserts : TRUE
         IN  [k \in DOMAIN current \cup {key} |->
                 IF k = key THEN upserts[k] ELSE current[k]]

\* Mutant: current.setdefault(key, value), a present key keeps its record.
set_each_setdefault(current, upserts) ==
    [k \in DOMAIN current \cup DOMAIN upserts |->
        IF k \in DOMAIN current THEN current[k] ELSE upserts[k]]

\* for key, value in upserts.items(): current[key] = value
set_each(current, upserts) ==
    [k \in DOMAIN current \cup DOMAIN upserts |->
        IF k \in DOMAIN upserts THEN upserts[k] ELSE current[k]]

\* The keys a `for ... in deletes` visits: the items of a list, the
\* characters of a str, the keys of a dict (any order: pop commutes).
RECURSIVE KeySeq(_)
KeySeq(S) ==
    IF S = {} THEN <<>>
    ELSE LET k == CHOOSE x \in S : TRUE IN <<k>> \o KeySeq(S \ {k})

iterate(deletes) ==
    IF deletes.t = "dict" THEN KeySeq(DOMAIN deletes.v) ELSE deletes.v

\* Mutant: the upserts applied before the deletes.
patched_document_upserts_first(snapshot, upserts, deletes) ==
    LET current == IF snapshot # NoRow THEN snapshot.people_json ELSE EmptyDoc
    IN  IF deletes.t \notin {"list", "str", "dict"}
        THEN [raised |-> "TypeError", current |-> current]
        ELSE IF upserts.t # "dict"
        THEN [raised |-> "AttributeError", current |-> current]
        ELSE [raised |-> None,
              current |-> pop_each(set_each(current, upserts.v), iterate(deletes))]

\* Mutant: the patch applied to an empty dict, not to a copy of the document.
patched_document_from_empty(snapshot, upserts, deletes) ==
    IF deletes.t \notin {"list", "str", "dict"}
    THEN [raised |-> "TypeError", current |-> EmptyDoc]
    ELSE IF upserts.t # "dict"
    THEN [raised |-> "AttributeError", current |-> EmptyDoc]
    ELSE [raised |-> None,
          current |-> set_each(pop_each(EmptyDoc, iterate(deletes)), upserts.v)]

\* apply_snapshot_patch up to its call of upsert_snapshot: [raised, current].
\* people_json only ever holds a dict, so the isinstance test passes.
patched_document(snapshot, upserts, deletes) ==
    LET current == IF snapshot # NoRow THEN snapshot.people_json ELSE EmptyDoc
    IN  IF deletes.t \notin {"list", "str", "dict"}
        THEN [raised |-> "TypeError", current |-> current]
        ELSE IF upserts.t # "dict"
        THEN [raised |-> "AttributeError",
              current |-> pop_each(current, iterate(deletes))]
        ELSE [raised |-> None,
              current |-> set_each(pop_each(current, iterate(deletes)), upserts.v)]

(***************************************************************************)
(* main.py: the /v1/pedigree/{google_sub} handlers                         *)
(***************************************************************************)
SnapshotResponse(user, people_by_id) ==
    [user_id |-> user.id, people_by_id |-> people_by_id]

\* Mutant: the owner check left out.
authorized_any_subject(r0, google_sub, authorization, answer) ==
    LET a == get_identity_from_access_token(authorization, answer)
        r1 == [r0 EXCEPT !.path = google_sub, !.token = a.token,
                         !.via = a.via, !.identity = a.value]
        user == get_user_by_google_sub(google_sub)
    IN  IF a.raised # None THEN HTTPException(r1, 401, "invalid access token")
        ELSE IF a.value = NoIdentity
        THEN HTTPException(r1, 401, "access token is required")
        ELSE IF user = NoRow THEN HTTPException(r1, 404, "user not found")
        ELSE [r1 EXCEPT !.pc = "authorized", !.user = user]

\* The head every handler shares: 401, 403, 404, or the account's row.
authorized(r0, google_sub, authorization, answer) ==
    LET a == get_identity_from_access_token(authorization, answer)
        r1 == [r0 EXCEPT !.path = google_sub, !.token = a.token,
                         !.via = a.via, !.identity = a.value]
        user == get_user_by_google_sub(google_sub)
    IN  IF a.raised # None THEN HTTPException(r1, 401, "invalid access token")
        ELSE IF a.value = NoIdentity
        THEN HTTPException(r1, 401, "access token is required")
        ELSE IF a.value.google_sub # google_sub
        THEN HTTPException(r1, 403, "forbidden")
        ELSE IF user = NoRow THEN HTTPException(r1, 404, "user not found")
        ELSE [r1 EXCEPT !.pc = "authorized", !.user = user]

get_pedigree(google_sub, authorization, answer) ==
    LET r == authorized([Idle EXCEPT !.op = "get"], google_sub, authorization, answer)
        snapshot == get_snapshot(r.user.id)
    IN  IF r.pc = "done" THEN r
        ELSE [r EXCEPT !.pc = "done", !.status = 200, !.snapshot = snapshot,
                       !.body = SnapshotResponse(r.user,
                                   IF snapshot # NoRow THEN snapshot.people_json
                                   ELSE EmptyDoc)]

\* upsert_snapshot up to its db.commit()
upsert_snapshot(r, people_by_id) ==
    [r EXCEPT !.pc = "loaded", !.snapshot = get_snapshot(r.user.id),
              !.people = people_by_id]

put_pedigree(google_sub, authorization, answer, payload) ==
    LET r == authorized([Idle EXCEPT !.op = "put"], google_sub, authorization, answer)
    IN  IF r.pc = "done" THEN r ELSE upsert_snapshot(r, payload.people_by_id)

\* Mutant: delete_snapshot returns True also when it found no row.
remove_pedigree_reports_true(google_sub, authorization, answer) ==
    LET r == authorized([Idle EXCEPT !.op = "delete"], google_sub, authorization, answer)
        snapshot == get_snapshot(r.user.id)
    IN  IF r.pc = "done" THEN r
        ELSE IF snapshot = NoRow
        THEN [r EXCEPT !.pc = "done", !.status = 200, !.body = [deleted |-> TRUE]]
        ELSE [r EXCEPT !.pc = "loaded", !.snapshot = snapshot]

remove_pedigree(google_sub, authorization, answer) ==
    LET r == authorized([Idle EXCEPT !.op = "delete"], google_sub, authorization, answer)
        snapshot == get_snapshot(r.user.id)
    IN  IF r.pc = "done" THEN r
        ELSE IF snapshot = NoRow
        THEN [r EXCEPT !.pc = "done", !.status = 200, !.body = [deleted |-> FALSE]]
        ELSE [r EXCEPT !.pc = "loaded", !.snapshot = snapshot]

\* A payload_b64 string is given by the stage of
\*   json.loads(gzip.decompress(base64.b64decode(s)).decode("utf-8"))
\* that raises on it ("none": none does) and the JSON value it then holds.
\* body.get raises on a value that is no object; a missing key takes the default.
decoded(payload_b64) ==
    IF payload_b64.fails # "none" \/ payload_b64.json.t # "dict"
    THEN [raised |-> "Exception"]
    ELSE [raised |-> None,
          upserts |-> IF "upserts" \in DOMAIN payload_b64.json.v
                      THEN payload_b64.json.v.upserts ELSE JsonDict(EmptyDoc),
          deletes |-> IF "deletes" \in DOMAIN payload_b64.json.v
                      THEN payload_b64.json.v.deletes ELSE JsonList(<<>>)]

\* Mutant: the deletes of the request itself kept beside a compressed payload.
patch_fields_outer_deletes(payload) ==
    IF payload.compressed
    THEN [upserts |-> decoded(payload.payload_b64).upserts,
          deletes |-> JsonList(payload.deletes)]
    ELSE [upserts |-> JsonDict(payload.upserts), deletes |-> JsonList(payload.deletes)]

\* The upserts and deletes patch_pedigree hands to apply_snapshot_patch: the
\* decoded payload's when compressed is set, the request's own otherwise.
patch_fields(payload) ==
    IF payload.compressed
    THEN [upserts |-> decoded(payload.payload_b64).upserts,
          deletes |-> decoded(payload.payload_b64).deletes]
    ELSE [upserts |-> JsonDict(payload.upserts), deletes |-> JsonList(payload.deletes)]

patch_pedigree(google_sub, authorization, answer, payload) ==
    LET r == authorized([Idle EXCEPT !.op = "patch", !.payload = payload],
                        google_sub, authorization, answer)
    IN  IF r.pc = "done" THEN r
        ELSE IF payload.compressed /\ payload.payload_b64.kind # "text"
        THEN HTTPException(r, 400, "payload_b64 is required when compressed")
        ELSE IF payload.compressed /\ decoded(payload.payload_b64).raised # None
        THEN HTTPException(r, 400, "invalid compressed payload")
        ELSE
        LET upserts == patch_fields(payload).upserts
            deletes == patch_fields(payload).deletes
            p == patched_document(get_snapshot(r.user.id), upserts, deletes)
            r1 == [r EXCEPT !.upserts = upserts, !.deletes = deletes]
        IN  IF p.raised # None
            THEN HTTPException(r1, 500, "Internal Server Error")
            ELSE upsert_snapshot(r1, p.current)

GetBegin(s, google_sub, authorization, answer) ==
    /\ req[s].pc = "idle"
    /\ req' = [req EXCEPT ![s] = get_pedigree(google_sub, authorization, answer)]
    /\ UNCHANGED <<users, snapshots, snapshot_seq, google_client_id>>

PutBegin(s, google_sub, authorization, answer, payload) ==
    /\ req[s].pc = "idle"
    /\ req' = [req EXCEPT ![s] = put_pedigree(google_sub, authorization, answer, payload)]
    /\ UNCHANGED <<users, snapshots, snapshot_seq, google_client_id>>

DeleteBegin(s, google_sub, authorization, answer) ==
    /\ req[s].pc = "idle"
    /\ req' = [req EXCEPT ![s] = remove_pedigree(google_sub, authorization, answer)]
    /\ UNCHANGED <<users, snapshots, snapshot_seq, google_client_id>>

PatchBegin(s, google_sub, authorization, answer, payload) ==
    /\ req[s].pc = "idle"
    /\ req' = [req EXCEPT ![s] = patch_pedigree(google_sub, authorization, answer, payload)]
    /\ UNCHANGED <<users, snapshots, snapshot_seq, google_client_id>>

\* Mutant: the new document merged into the stored one.
replaced_merged(snapshot, people_by_id) ==
    [snapshot EXCEPT !.people_json = set_each(@, people_by_id)]

\* snapshot.people_json = people_by_id
replaced(snapshot, people_by_id) ==
    [snapshot EXCEPT !.people_json = people_by_id]

\* Mutant: no unique index on user_id.
SnapshotsUniqueViolation_none(user_id) == FALSE

\* The unique index of pedigree_snapshots (user_id) against a row to insert.
SnapshotsUniqueViolation(user_id) ==
    \E x \in snapshots : x.user_id = user_id

\* upsert_snapshot's db.commit().  With a row loaded: an UPDATE by primary key,
\* not sent when the document equals the one loaded, StaleDataError when the
\* row is gone.  With none: an INSERT, IntegrityError when the unique index on
\* user_id already holds a row of the account.
UpsertCommit(s) ==
    LET r == req[s]
    IN
    /\ r.pc = "loaded"
    /\ r.op \in {"put", "patch"}
    /\ IF r.snapshot # NoRow
       THEN IF r.people = r.snapshot.people_json
            THEN /\ req' = [req EXCEPT ![s].pc = "committed"]
                 /\ UNCHANGED <<snapshots, snapshot_seq>>
            ELSE IF \E x \in snapshots : x.id = r.snapshot.id
            THEN /\ snapshots' =
                       {IF x.id = r.snapshot.id THEN replaced(x, r.people) ELSE x :
                        x \in snapshots}
                 /\ req' = [req EXCEPT ![s].pc = "committed"]
                 /\ UNCHANGED snapshot_seq
            ELSE /\ req' = [req EXCEPT ![s] =
                              HTTPException(r, 500, "Internal Server Error")]
                 /\ UNCHANGED <<snapshots, snapshot_seq>>
       ELSE IF SnapshotsUniqueViolation(r.user.id)
            THEN /\ req' = [req EXCEPT ![s] =
                              HTTPException(r, 500, "Internal Server Error")]
                 /\ UNCHANGED <<snapshots, snapshot_seq>>
            ELSE /\ snapshot_seq < MaxSnapshotId
                 /\ LET new == [id |-> snapshot_seq + 1, user_id |-> r.user.id,
                                people_json |-> r.people]
                    IN  /\ snapshots' = snapshots \cup {new}
                        /\ req' = [req EXCEPT ![s].pc = "committed",
                                              ![s].snapshot = new]
                 /\ snapshot_seq' = snapshot_seq + 1
    /\ UNCHANGED <<users, google_client_id>>

\* upsert_snapshot's db.refresh(snapshot) and the response: InvalidRequestError
\* when the row is gone.
UpsertRefresh(s) ==
    LET r == req[s]
        snapshot == first({x \in snapshots : x.id = r.snapshot.id})
    IN
    /\ r.pc = "committed"
    /\ r.op \in {"put", "patch"}
    /\ req' = [req EXCEPT ![s] =
                 IF snapshot = NoRow
                 THEN HTTPException(r, 500, "Internal Server Error")
                 ELSE [r EXCEPT !.pc = "done", !.status = 200,
                                !.snapshot = snapshot,
                                !.body = SnapshotResponse(r.user, snapshot.people_json)]]
    /\ UNCHANGED <<users, snapshots, snapshot_seq, google_client_id>>

\* delete_snapshot's db.delete(snapshot); db.commit(): a DELETE by primary
\* key, which a row already gone does not fail.
DeleteCommit(s) ==
    LET r == req[s]
    IN
    /\ r.pc = "loaded"
    /\ r.op = "delete"
    /\ snapshots' = {x \in snapshots : x.id # r.snapshot.id}
    /\ req' = [req EXCEPT ![s] = [r EXCEPT !.pc = "done", !.status = 200,
                                            !.body = [deleted |-> TRUE]]]
    /\ UNCHANGED <<users, snapshot_seq, google_client_id>>

(***************************************************************************)
(* The snapshot store of one account, one request at a time                *)
(***************************************************************************)
\* The account of s1, as a login of s1 left it; s2 has never logged in.
Account1 ==
    [id |-> 1, google_sub |-> "s1", email |-> "e1", name |-> "n1", photo_url |-> "p1"]

InitStore ==
    /\ users = {Account1}
    /\ snapshots = {}
    /\ snapshot_seq = 0
    /\ google_client_id = None
    /\ req = [s \in Slots |-> Idle]

\* Credentials of the pedigree requests: no header or a bearer token, which
\* the provider rejects or answers with the identity of s1 or of s2.
StoreHeaders == {NoHeader, Header(BearerPrefix \o <<"t">>)}

StoreAnswers ==
    { [kind |-> "HTTPError"] } \cup
    { [kind |-> "ok", sub |-> sub, email |-> "e1", name |-> None, picture |-> None] :
        sub \in Subjects }

PutPayloads == { [people_by_id |-> d] : d \in Docs }

\* payload_b64: absent, empty, or a text (see decoded).
AbsentText == [kind |-> "none"]
EmptyText == [kind |-> "empty"]
Text(fails, json) == [kind |-> "text", fails |-> fails, json |-> json]

SomeDoc == [k \in {"p1"} |-> "Bob"]
OtherDoc == [k \in {"p2"} |-> "Alice"]

\* Texts that fail at each stage, that hold no object, an object with
\* neither key, a patch, and upserts/deletes of other JSON types.
Texts ==
    { AbsentText, EmptyText,
      Text("base64", JsonNull), Text("gzip", JsonNull), Text("utf8", JsonNull),
      Text("json", JsonNull),
      Text("none", JsonList(<<>>)), Text("none", JsonNumber),
      Text("none", JsonDict(EmptyDoc)),
      Text("none", JsonDict([upserts |-> JsonDict(SomeDoc),
                             deletes |-> JsonList(<<"p2">>)])),
      Text("none", JsonDict([deletes |-> JsonList(<<"p1">>)])),
      Text("none", JsonDict([upserts |-> JsonList(<<>>)])),
      Text("none", JsonDict([upserts |-> JsonNull, deletes |-> JsonList(<<"p1">>)])),
      Text("none", JsonDict([deletes |-> JsonString(<<"p", "1">>)])),
      Text("none", JsonDict([deletes |-> JsonDict(SomeDoc)])),
      Text("none", JsonDict([deletes |-> JsonNumber])) }

\* SnapshotPatchRequest bodies: every plain patch, and the texts sent with
\* compressed set, with and without upserts/deletes of their own beside them.
PatchPayloads ==
    { [upserts |-> u, deletes |-> d, compressed |-> FALSE, payload_b64 |-> AbsentText] :
        u \in Docs, d \in DeleteLists } \cup
    { [upserts |-> u, deletes |-> d, compressed |-> TRUE, payload_b64 |-> t] :
        u \in {EmptyDoc, OtherDoc}, d \in {<<>>, <<"p1">>}, t \in Texts }

\* The steps of the pedigree requests of slot s.
Pedigree(s, subjects, headers, answers, puts, patches) ==
    \/ \E g \in subjects, h \in headers, a \in answers : GetBegin(s, g, h, a)
    \/ \E g \in subjects, h \in headers, a \in answers, p \in puts :
           PutBegin(s, g, h, a, p)
    \/ \E g \in subjects, h \in headers, a \in answers, p \in patches :
           PatchBegin(s, g, h, a, p)
    \/ \E g \in subjects, h \in headers, a \in answers : DeleteBegin(s, g, h, a)
    \/ UpsertCommit(s)
    \/ UpsertRefresh(s)
    \/ DeleteCommit(s)
    \/ Return(s)

NextStore ==
    Pedigree(1, Subjects, StoreHeaders, StoreAnswers, PutPayloads, PatchPayloads)

SpecStore == InitStore /\ [][NextStore]_vars

(***************************************************************************)
(* Properties of the snapshot store (SpecStore)                            *)
(***************************************************************************)
\* The document stored for an account: the empty map when it has no row.
StoredDocument(user_id) ==
    IF get_snapshot(user_id) = NoRow THEN EmptyDoc
    ELSE get_snapshot(user_id).people_json

Range(seq) == {seq[i] : i \in DOMAIN seq}

\* A PATCH whose upserts are a map and whose deletes are a list.
WellTyped(r) ==
    /\ r.op = "patch"
    /\ r.upserts # NoDoc
    /\ r.upserts.t = "dict"
    /\ r.deletes.t = "list"

\* C1: after a successful patch, every key that is both in the delete list and
\* in the upsert map is in the stored and in the returned document, with the
\* upsert's value.
C1_UpsertWins ==
    \A s \in Slots :
        LET r == req[s]
        IN  (r.op = "patch" /\ r.pc = "done" /\ r.status = 200 /\ WellTyped(r)) =>
                \A k \in DOMAIN r.upserts.v \cap Range(r.deletes.v) :
                    /\ k \in DOMAIN StoredDocument(r.user.id)
                    /\ StoredDocument(r.user.id)[k] = r.upserts.v[k]
                    /\ k \in DOMAIN r.body.people_by_id
                    /\ r.body.people_by_id[k] = r.upserts.v[k]

C1_Witness ==
    \E s \in Slots :
        /\ req[s].op = "patch" /\ req[s].pc = "done" /\ req[s].status = 200
        /\ WellTyped(req[s])
        /\ \E k \in DOMAIN req[s].upserts.v \cap Range(req[s].deletes.v) :
               req[s].body.people_by_id[k] = "Bob"

\* C2: the commit of a patch turns the stored document D into the document
\* that maps a key of the upserts to the upsert's record, has no other key of
\* the delete list, and agrees with D on every other key; a well-typed patch
\* never fails, whether or not its delete ids are keys of D.
C2_PatchedDocument ==
    [][\A s \in Slots :
        LET r == req[s]
        IN  /\ (r.pc = "idle" /\ req'[s].op = "patch" /\ req'[s].status = 500)
                   => ~WellTyped(req'[s])
            /\ (r.pc = "loaded" /\ WellTyped(r)) =>
                /\ req'[s].status # 500
                /\ req'[s].pc = "committed" =>
                    LET D == StoredDocument(r.user.id)
                        E == StoredDocument(r.user.id)'
                    IN  /\ get_snapshot(r.user.id)' # NoRow
                        /\ DOMAIN E =
                              (DOMAIN D \ Range(r.deletes.v)) \cup DOMAIN r.upserts.v
                        /\ \A k \in DOMAIN E :
                              E[k] = IF k \in DOMAIN r.upserts.v
                                     THEN r.upserts.v[k] ELSE D[k]
      ]_vars

\* A patch committed on a document of which it deletes an absent key and
\* leaves a key alone.
C2_Witness ==
    \E s \in Slots :
        /\ req[s].pc = "committed" /\ WellTyped(req[s])
        /\ \E k \in Range(req[s].deletes.v) : k \notin DOMAIN req[s].snapshot.people_json
        /\ \E k \in DOMAIN req[s].snapshot.people_json :
               k \notin DOMAIN req[s].upserts.v \cup Range(req[s].deletes.v)

\* A patch with no upsert and no delete.
EmptyPatch(r) ==
    WellTyped(r) /\ r.upserts.v = EmptyDoc /\ r.deletes.v = <<>>

\* C3: a patch with an empty upsert map and an empty delete list leaves the
\* stored document as it was (the empty map when there was no row), and
\* returns that document.
C3_EmptyPatchIsNoOp ==
    [][\A s \in Slots :
        LET r == req[s]
        IN  (EmptyPatch(r) /\ r.pc \in {"loaded", "committed"}) =>
                /\ StoredDocument(r.user.id)' = StoredDocument(r.user.id)
                /\ req'[s].pc = "done" =>
                      /\ req'[s].status = 200
                      /\ req'[s].body.people_by_id = StoredDocument(r.user.id)
      ]_vars

C3_Witness ==
    \E s \in Slots :
        /\ EmptyPatch(req[s]) /\ req[s].pc = "done" /\ req[s].status = 200
        /\ req[s].body.people_by_id # EmptyDoc

\* C4: once upsert_snapshot(P) has committed, get_snapshot finds a row of the
\* account and its document is P, and so is the document PUT returns.
C4_ReplaceThenGet ==
    \A s \in Slots :
        LET r == req[s]
        IN  /\ (r.op = "put" /\ r.pc = "committed") =>
                /\ get_snapshot(r.user.id) # NoRow
                /\ get_snapshot(r.user.id).people_json = r.people
            /\ (r.op = "put" /\ r.pc = "done" /\ r.status = 200) =>
                /\ get_snapshot(r.user.id) # NoRow
                /\ get_snapshot(r.user.id).people_json = r.people
                /\ r.body.people_by_id = r.people

\* A PUT committed over a row that held another, non-empty document.
C4_Witness ==
    \E s \in Slots :
        /\ req[s].op = "put" /\ req[s].pc = "committed"
        /\ req[s].snapshot.people_json # req[s].people
        /\ req[s].snapshot.people_json # EmptyDoc

PedigreeOps == {"get", "put", "patch", "delete"}

\* C5: a pedigree request whose token verifies to another subject than the
\* path's ends at once with 403 "forbidden", a body without any document, and
\* no change of the snapshots.
C5_OtherSubjectForbidden ==
    [][\A s \in Slots :
        (/\ req[s].pc = "idle"
         /\ req'[s].op \in PedigreeOps
         /\ req'[s].identity # NoIdentity
         /\ req'[s].identity.google_sub # req'[s].path)
        => /\ req'[s].pc = "done"
           /\ req'[s].status = 403
           /\ req'[s].body = [detail |-> "forbidden"]
           /\ snapshots' = snapshots
      ]_vars

\* s2's token on the path of s1, whose account holds a document.
C5_Witness ==
    \E s \in Slots :
        /\ req[s].op \in PedigreeOps /\ req[s].pc = "done" /\ req[s].status = 403
        /\ req[s].path = "s1" /\ req[s].identity.google_sub = "s2"
        /\ StoredDocument(1) # EmptyDoc

(***************************************************************************)
(* Properties of the accounts (SpecAccounts)                               *)
(***************************************************************************)
\* C6: no two rows of users hold the same google_sub, whatever logins have
\* run and however their steps interleaved.
C6_OneAccountPerSubject ==
    \A u \in users, v \in users : u.google_sub = v.google_sub => u = v

\* A login that found no row of its subject, while another login of the same
\* subject inserted one, and so failed on the unique index.
C6_Witness ==
    \E s \in Slots :
        /\ req[s].op = "login" /\ req[s].pc = "done" /\ req[s].status = 500
        /\ req[s].user = NoRow
        /\ \E u \in users : u.google_sub = req[s].identity.google_sub

(***************************************************************************)
(* Two PATCH requests of one account at once                               *)
(***************************************************************************)
\* The account of s1 holds a document; each slot sends one PATCH with the
\* token of s1 and keeps its response.
InitialDoc == SomeDoc

InitTwoPatches ==
    /\ users = {Account1}
    /\ snapshots = {[id |-> 1, user_id |-> 1, people_json |-> InitialDoc]}
    /\ snapshot_seq = 1
    /\ google_client_id = None
    /\ req = [s \in Slots |-> Idle]

PlainPatches == { p \in PatchPayloads : ~p.compressed }

NextTwoPatches ==
    \E s \in Slots :
        \/ \E p \in PlainPatches :
               PatchBegin(s, "s1", Header(BearerPrefix \o <<"t">>),
                          [kind |-> "ok", sub |-> "s1", email |-> "e1",
                           name |-> None, picture |-> None], p)
        \/ UpsertCommit(s)
        \/ UpsertRefresh(s)

SpecTwoPatches == InitTwoPatches /\ [][NextTwoPatches]_vars

\* The document a patch request r makes of document D.
Patched(D, r) == set_each(pop_each(D, r.deletes.v), r.upserts.v)

\* C7: when both patches have returned 200, the stored document is the one
\* the two patches make of the initial document in one of the two orders.
C7_NoLostUpdate ==
    (\A s \in Slots : req[s].pc = "done" /\ req[s].status = 200) =>
        StoredDocument(1) \in
            { Patched(Patched(InitialDoc, req[1]), req[2]),
              Patched(Patched(InitialDoc, req[2]), req[1]) }

(***************************************************************************)
(* Properties of the credentials (SpecAuth)                                *)
(***************************************************************************)
\* C8: a login whose identity is the body's own fields (the dev fallback)
\* changes the accounts only when no audience is configured.
C8_DevFallbackGated ==
    [][\A s \in Slots :
        (req[s].op = "login" /\ req[s].via = "dev" /\ users' # users)
            => Falsy(google_client_id)
      ]_vars

\* C9: a login with a bearer token takes the access-token path and no
\* other; when the token does not verify it ends at once with 401 and the
\* accounts unchanged, an id_token in the body or not.
C9_AccessTokenFirst ==
    [][\A s \in Slots :
        (req[s].pc = "idle" /\ req'[s].op = "login" /\ req'[s].token # NoToken)
        => /\ req'[s].via = "access_token"
           /\ req'[s].identity = NoIdentity =>
                 /\ req'[s].pc = "done"
                 /\ req'[s].status = 401
                 /\ users' = users
      ]_vars

\* A bad bearer token beside an id_token, the audience configured: 401.
C9_Witness ==
    \E s \in Slots :
        /\ req[s].op = "login" /\ req[s].pc = "done" /\ req[s].status = 401
        /\ req[s].token # NoToken /\ req[s].id_token = "idtok"
        /\ google_client_id = "cid"

\* The identity lacks its subject id or its email.
Incomplete(identity) ==
    Falsy(identity.google_sub) \/ Falsy(identity.email)

\* C10: a login whose identity, from whichever path, lacks its subject id or
\* its email ends at once with 400 and the accounts unchanged, and only a
\* complete identity ever reaches upsert_user.
C10_IncompleteIdentityRejected ==
    [][\A s \in Slots :
        /\ (/\ req[s].pc = "idle" /\ req'[s].op = "login"
            /\ req'[s].identity # NoIdentity /\ Incomplete(req'[s].identity))
           => /\ req'[s].pc = "done"
              /\ req'[s].status = 400
              /\ users' = users
        /\ (req[s].op = "login" /\ users' # users) => ~Incomplete(req[s].identity)
      ]_vars

\* Rejected with 400 on each of the three paths is reachable; this one is the
\* id_token path with a subject and no email.
C10_Witness ==
    \E s \in Slots :
        /\ req[s].op = "login" /\ req[s].pc = "done" /\ req[s].status = 400
        /\ req[s].via = "id_token"
        /\ ~Falsy(req[s].identity.google_sub) /\ Falsy(req[s].identity.email)

(***************************************************************************)
(* Properties of the PATCH request (SpecStore)                             *)
(***************************************************************************)
\* The payload_b64 of a compressed request decodes to a JSON object whose
\* upserts, when present, are an object and whose deletes, when present, are
\* a list.
WellFormedEnvelope(payload) ==
    /\ payload.compressed
    /\ payload.payload_b64.kind = "text"
    /\ payload.payload_b64.fails = "none"
    /\ payload.payload_b64.json.t = "dict"
    /\ "upserts" \in DOMAIN payload.payload_b64.json.v
          => payload.payload_b64.json.v.upserts.t = "dict"
    /\ "deletes" \in DOMAIN payload.payload_b64.json.v
          => payload.payload_b64.json.v.deletes.t = "list"

EnvelopeUpserts(payload) ==
    IF "upserts" \in DOMAIN payload.payload_b64.json.v
    THEN payload.payload_b64.json.v.upserts.v ELSE EmptyDoc

EnvelopeDeletes(payload) ==
    IF "deletes" \in DOMAIN payload.payload_b64.json.v
    THEN payload.payload_b64.json.v.deletes.v ELSE <<>>

\* Document D with every key of `keys` removed and then every upsert set.
FullyPatched(D, upserts, keys) ==
    [k \in (DOMAIN D \ keys) \cup DOMAIN upserts |->
        IF k \in DOMAIN upserts THEN upserts[k] ELSE D[k]]

\* An authorized PATCH: the token is the path's and the account exists.
AuthorizedPatch(r) == r.op = "patch" /\ r.user # NoRow

\* C11: an authorized PATCH with compressed set and a well-formed envelope
\* writes the document the envelope's upserts (none when it has none) and
\* deletes (none when it has none) make of the stored one, whatever upserts
\* and deletes the request itself carries; without compressed it writes the
\* document the request's own upserts and deletes make of it; the document
\* written is the one stored and returned.
C11_EnvelopeApplied ==
    [][\A s \in Slots :
        LET r == req[s]
            q == req'[s]
        IN  /\ (r.pc = "idle" /\ AuthorizedPatch(q) /\ WellFormedEnvelope(q.payload)) =>
                /\ q.pc = "loaded"
                /\ q.people = FullyPatched(StoredDocument(q.user.id),
                                           EnvelopeUpserts(q.payload),
                                           Range(EnvelopeDeletes(q.payload)))
            /\ (r.pc = "idle" /\ AuthorizedPatch(q) /\ ~q.payload.compressed) =>
                /\ q.pc = "loaded"
                /\ q.people = FullyPatched(StoredDocument(q.user.id),
                                           q.payload.upserts,
                                           Range(q.payload.deletes))
            /\ (r.op = "patch" /\ r.pc = "loaded" /\ q.pc = "committed") =>
                StoredDocument(r.user.id)' = r.people
            /\ (r.op = "patch" /\ r.pc = "committed" /\ q.pc = "done") =>
                q.status = 200 /\ q.body.people_by_id = r.people
      ]_vars

\* A compressed PATCH that carries an upsert of p2 and a delete of p1 of its
\* own, and returns the document of its envelope alone: p1, and no p2.
C11_Witness ==
    \E s \in Slots :
        /\ req[s].op = "patch" /\ req[s].pc = "done" /\ req[s].status = 200
        /\ req[s].payload.compressed
        /\ req[s].payload.upserts = OtherDoc
        /\ req[s].payload.deletes = <<"p1">>
        /\ req[s].body.people_by_id = SomeDoc

\* C12: an authorized PATCH with compressed set whose payload_b64 is absent,
\* empty, fails to decode, or decodes to something that is not an object with
\* a map of upserts and a list of deletes, ends with 400.
C12_InvalidPayloadIs400 ==
    [][\A s \in Slots :
        (/\ req[s].pc = "idle"
         /\ AuthorizedPatch(req'[s])
         /\ req'[s].payload.compressed
         /\ ~WellFormedEnvelope(req'[s].payload))
        => req'[s].pc = "done" /\ req'[s].status = 400
      ]_vars

\* C13: a PATCH request changes the snapshots in one step only, its commit,
\* which stores the document with every delete and every upsert applied; a
\* request that ends with an error has changed nothing, and one that has
\* committed returns 200 with the stored document.
C13_AllOrNothing ==
    [][\A s \in Slots :
        LET r == req[s]
            q == req'[s]
        IN  /\ (r.pc = "idle" /\ q.op = "patch") => snapshots' = snapshots
            /\ (r.op = "patch" /\ r.pc = "loaded") =>
                IF q.pc = "committed"
                THEN StoredDocument(r.user.id)' =
                        FullyPatched(StoredDocument(r.user.id), r.upserts.v,
                                     Range(iterate(r.deletes)))
                ELSE snapshots' = snapshots /\ q.status # 200
            /\ (r.op = "patch" /\ r.pc = "committed") =>
                /\ snapshots' = snapshots
                /\ q.pc = "done" =>
                      /\ q.status = 200
                      /\ q.body.people_by_id = StoredDocument(r.user.id)
      ]_vars

\* A PATCH that failed on its upserts after its delete of p1 was applied to
\* the copy: the stored document still holds p1.
C13_Witness ==
    \E s \in Slots :
        /\ req[s].op = "patch" /\ req[s].pc = "done" /\ req[s].status = 500
        /\ req[s].upserts # NoDoc /\ req[s].upserts.t # "dict"
        /\ req[s].deletes.t = "list" /\ "p1" \in Range(req[s].deletes.v)
        /\ "p1" \in DOMAIN StoredDocument(req[s].user.id)

(***************************************************************************)
(* Pedigree requests of two accounts, in every slot at once                *)
(***************************************************************************)
\* The account of s2, as a login of s2 without a profile left it.
Account2 ==
    [id |-> 2, google_sub |-> "s2", email |-> "e2", name |-> None, photo_url |-> None]

InitPedigrees ==
    /\ users = {Account1, Account2}
    /\ snapshots = {}
    /\ snapshot_seq = 0
    /\ google_client_id = None
    /\ req = [s \in Slots |-> Idle]

\* The answer of the provider to the token of subject g.
TokenOf(g) ==
    [kind |-> "ok", sub |-> g, email |-> "e1", name |-> None, picture |-> None]

\* One PUT body; a PATCH that upserts p2 and one that deletes p1.
SomePuts == { [people_by_id |-> SomeDoc] }

SomePatches ==
    { [upserts |-> OtherDoc, deletes |-> <<>>, compressed |-> FALSE,
       payload_b64 |-> AbsentText],
      [upserts |-> EmptyDoc, deletes |-> <<"p1">>, compressed |-> FALSE,
       payload_b64 |-> AbsentText] }

\* The subjects whose requests slot s carries: slot 1 those of s1, slot 2
\* those of both, so that requests of one account and requests of two
\* accounts run at once.
SubjectsOf(s) == IF s = 1 THEN {"s1"} ELSE Subjects

\* Every slot sends GET, PUT, PATCH and DELETE requests, each with the token
\* of the subject of its path.
NextPedigrees ==
    \E s \in Slots : \E g \in SubjectsOf(s) :
        Pedigree(s, {g}, {Header(BearerPrefix \o <<"t">>)}, {TokenOf(g)},
                 SomePuts, SomePatches)

SpecPedigrees == InitPedigrees /\ [][NextPedigrees]_vars

\* C14: no two rows of pedigree_snapshots belong to the same account,
\* whatever requests have run and however their steps interleaved.
C14_OneSnapshotPerAccount ==
    \A x \in snapshots, y \in snapshots : x.user_id = y.user_id => x = y

\* A delete and two first writes of one account: a write that found no row
\* failed on the unique index against a row inserted since, after an earlier
\* row of the account had been deleted.
C14_Witness ==
    \E s \in Slots :
        /\ req[s].op \in {"put", "patch"} /\ req[s].pc = "done" /\ req[s].status = 500
        /\ req[s].people # NoDoc /\ req[s].snapshot = NoRow
        /\ \E x \in snapshots : x.user_id = req[s].user.id /\ x.id > 1

\* C17: a PUT or PATCH that found no snapshot row of its account ends with
\* 200, also when another first write of the account ran at the same time.
C17_FirstWritesBothSucceed ==
    \A s \in Slots :
        (/\ req[s].op \in {"put", "patch"} /\ req[s].pc = "done"
         /\ req[s].people # NoDoc /\ req[s].snapshot = NoRow)
        => req[s].status = 200

\* The rows of the snapshots that belong to other accounts than user_id.
RowsOfOthers(user_id) == {x \in snapshots : x.user_id # user_id}

\* C19: a step of a request of account A leaves the snapshot rows of every
\* other account as they are, and what it loads and what it writes are made
\* of the rows of A and of the request alone: it loads the row of A, a PATCH
\* patches the document of A, and a step changes the document of A to the
\* request's document only (for DELETE: to none).
C19_AccountsIndependent ==
    [][\A s \in Slots :
        LET r == req[s]
            q == req'[s]
        IN  /\ (r.pc = "idle" /\ q.op \in PedigreeOps /\ q.user # NoRow) =>
                /\ snapshots' = snapshots
                /\ q.snapshot = get_snapshot(q.user.id)
                /\ q.snapshot # NoRow => q.snapshot.user_id = q.user.id
                /\ q.op = "patch" =>
                      q.people = FullyPatched(StoredDocument(q.user.id),
                                              q.payload.upserts,
                                              Range(q.payload.deletes))
                /\ q.op = "get" =>
                      q.body.people_by_id = StoredDocument(q.user.id)
            /\ (r.pc \in {"loaded", "committed"} /\ q # r) =>
                /\ RowsOfOthers(r.user.id)' = RowsOfOthers(r.user.id)
                /\ r.op \in {"put", "patch"} =>
                      StoredDocument(r.user.id)' \in {StoredDocument(r.user.id), r.people}
                /\ r.op = "delete" =>
                      StoredDocument(r.user.id)' \in {StoredDocument(r.user.id), EmptyDoc}
      ]_vars

\* A write of s2 commits while s1 holds a document and a request of s1 is
\* under way.
C19_Witness ==
    \E s \in Slots, t \in Slots :
        /\ req[s].op \in {"put", "patch"} /\ req[s].pc = "committed"
        /\ req[s].user.id = 2 /\ StoredDocument(2) # EmptyDoc
        /\ req[t].op \in {"put", "patch", "delete"} /\ req[t].pc = "loaded"
        /\ req[t].user.id = 1 /\ StoredDocument(1) # EmptyDoc

(***************************************************************************)
(* Properties of DELETE (SpecStore)                                        *)
(***************************************************************************)
\* C15: a DELETE of an account without snapshot row answers deleted = false
\* and changes nothing; a DELETE of an account with one removes it and
\* answers deleted = true; either way the account then has no snapshot row,
\* its users row is as before, and a GET of an account without row returns
\* the empty map.
C15_DeleteReportsRow ==
    [][\A s \in Slots :
        LET r == req[s]
            q == req'[s]
        IN  /\ (r.pc = "idle" /\ q.op = "delete" /\ q.user # NoRow) =>
                /\ snapshots' = snapshots /\ users' = users
                /\ IF get_snapshot(q.user.id) = NoRow
                   THEN q.pc = "done" /\ q.status = 200 /\ q.body = [deleted |-> FALSE]
                   ELSE q.pc = "loaded"
            /\ (r.op = "delete" /\ r.pc = "loaded") =>
                /\ get_snapshot(r.user.id) # NoRow
                /\ q.pc = "done" /\ q.status = 200 /\ q.body = [deleted |-> TRUE]
                /\ {x \in snapshots' : x.user_id = r.user.id} = {}
                /\ users' = users /\ r.user \in users'
            /\ (r.pc = "idle" /\ q.op = "get" /\ q.user # NoRow
                  /\ get_snapshot(q.user.id) = NoRow) =>
                q.status = 200 /\ q.body.people_by_id = EmptyDoc
      ]_vars

\* A second delete: the account had a snapshot row once, has none now, and a
\* DELETE answers deleted = false.
C15_Witness ==
    \E s \in Slots :
        /\ req[s].op = "delete" /\ req[s].pc = "done" /\ req[s].status = 200
        /\ req[s].body = [deleted |-> FALSE]
        /\ snapshot_seq > 0
        /\ req[s].user \in users

(***************************************************************************)
(* Properties of the accounts under concurrent logins (SpecAccounts)       *)
(***************************************************************************)
\* Another account than the identity's subject holds the identity's email.
EmailTaken(identity) ==
    \E u \in users : u.email = identity.email /\ u.google_sub # identity.google_sub

\* C16: a login that found no account of its subject does not fail when the
\* account was inserted by another login meanwhile: unless its email is held
\* by another account, it does not end with a 500.
C16_ConcurrentFirstLoginsSucceed ==
    \A s \in Slots :
        (/\ req[s].op = "login" /\ req[s].pc = "done"
         /\ req[s].identity # NoIdentity /\ req[s].user = NoRow
         /\ ~EmailTaken(req[s].identity))
        => req[s].status # 500

\* The login writes the email column: it inserts the account, or found it
\* with another email than the identity's.
WritesEmail(r) ==
    r.user = NoRow \/ r.identity.email # r.user.email

\* C20: no two rows of users hold the same email; the commit of a login that
\* inserts an account, or changes the email of one, with an email held by the
\* account of another subject fails with a 500 and leaves the users table as
\* it is.
C20_OneAccountPerEmail ==
    [][/\ \A u \in users', v \in users' : u.email = v.email => u = v
       /\ \A s \in Slots :
            (/\ req[s].op = "login" /\ req[s].pc = "loaded"
             /\ req'[s] # req[s]
             /\ WritesEmail(req[s])
             /\ EmailTaken(req[s].identity))
            => /\ req'[s].pc = "done"
               /\ req'[s].status = 500
               /\ users' = users
      ]_vars

\* A login of an existing account with the email of another account has
\* failed; the two accounts hold their own emails.
C20_Witness ==
    \E s \in Slots :
        /\ req[s].op = "login" /\ req[s].pc = "done" /\ req[s].status = 500
        /\ req[s].user # NoRow
        /\ req[s].identity.email # req[s].user.email
        /\ EmailTaken(req[s].identity)

(***************************************************************************)
(* Properties of a login of an existing account (SpecAuth)                 *)
(***************************************************************************)
\* C18: the commit of a login that found the account of its subject leaves
\* that row with the identity's email, name and photo_url, None included,
\* and with its id and google_sub; the table has the same ids as before, and
\* the response shows the row.
C18_LoginOverwrites ==
    [][\A s \in Slots :
        LET r == req[s]
            q == req'[s]
        IN  /\ (r.op = "login" /\ r.pc = "loaded" /\ r.user # NoRow
                  /\ q.pc = "committed") =>
                /\ {u.id : u \in users'} = {u.id : u \in users}
                /\ Cardinality(users') = Cardinality(users)
                /\ \E u \in users' :
                      /\ u.id = r.user.id
                      /\ u.google_sub = r.user.google_sub
                      /\ u.email = r.identity.email
                      /\ u.name = r.identity.name
                      /\ u.photo_url = r.identity.photo_url
            /\ (r.op = "login" /\ r.pc = "committed" /\ q.pc = "done") =>
                /\ q.status = 200
                /\ q.body.google_sub = r.identity.google_sub
                /\ q.body.email = r.identity.email
                /\ q.body.name = r.identity.name
                /\ q.body.photo_url = r.identity.photo_url
      ]_vars

\* A login without name and picture has committed on an account that held
\* both: the row holds None for both.
C18_Witness ==
    \E s \in Slots :
        /\ req[s].op = "login" /\ req[s].pc = "committed"
        /\ req[s].user.name = "n1" /\ req[s].user.photo_url = "p1"
        /\ req[s].identity.name = None
        /\ \E u \in users :
              u.id = req[s].user.id /\ u.name = None /\ u.photo_url = None

====
